---- MODULE Spec2Model ----
(***************************************************************************)
(* Orchestration core of the digital-avatar frontend:                      *)
(*   - useWebSocket (frontend/src/hooks/useWebSocket.ts): the connection   *)
(*     manager, its reconnect counter, its transports and retry timers;    *)
(*   - AvatarSystem (components/AvatarSystem.tsx): the connection-status   *)
(*     effect with its 5 s reconnect timer, the periodic service check,    *)
(*     the connect/disconnect button, text sending, recording and the      *)
(*     audio pipeline;                                                     *)
(*   - AvatarService (frontend/src/services/avatarService.ts): the         *)
(*     recognition -> generation -> synthesis stage sequence and the       *)
(*     health probes of checkServices;                                     *)
(*   - AvatarPage (components/AvatarPage.tsx) with its VoiceRecorder and   *)
(*     AnimatedAvatar children, and ServiceStatus.                         *)
(*                                                                         *)
(* One TLA+ step is one JavaScript task (an event handler, a timer         *)
(* callback, the continuation of an await) together with the React commit  *)
(* of the state it set and the effects of that commit.  The error and the  *)
(* close event of a failed WebSocket are two handlers of one task and are  *)
(* two steps, with the commit after the second.  A null reference is       *)
(* written 0.                                                              *)
(***************************************************************************)
EXTENDS Integers, Sequences, FiniteSets, TLC

\* useWebSocket.ts:26  maxReconnectAttempts = 5
maxReconnectAttempts == 5

\* Bounds of the model (not program constants).
MaxSockets == 3
MaxTimers == 2
MaxTurns == 2
MaxChecks == 1
MaxInbound == 2

SockIds == 1..MaxSockets
TimerIds == 1..MaxTimers
\* A voice turn: one recording (one MediaRecorder) and the pipeline run
\* its stop event starts.
TurnIds == 1..MaxTurns
\* The checkServices() calls that are awaited at one time.
CheckIds == 1..MaxChecks

\* The services checkServices probes: avatarService.ts:167-169.
Services == {"backend", "tts", "sadtalker"}

\* ConnectionStatus, useWebSocket.ts:4
ConnectionStatus == {"Connecting", "Connected", "Disconnected", "Error"}

\* The texts a user types (handleSendText).
Texts == {"", "t1"}
\* What the recognition service may answer (recognition.text).
Heard == {"", " ", "hello"}
\* What the generation service may answer (aiResponse.text).
Replies == {"", "hi"}

\* Frames handed to WebSocket.send: the bare string "ping"
\* (AvatarSystem.tsx:47) and JSON.stringify({type: "user_message", text})
\* (AvatarSystem.tsx:311-316).
Ping == [json |-> FALSE, type |-> "", text |-> "ping"]
UserMessage(t) == [json |-> TRUE, type |-> "user_message", text |-> t]

\* String.prototype.trim on the texts of the model.
trim(t) == IF t \in {"", " "} THEN "" ELSE t

VARIABLES
  \* ---- useWebSocket ----
  connectionStatus,      \* useState<ConnectionStatus>, latest value set
  reconnectAttempts,     \* useState(0), the reported counter
  reconnectAttemptsRef,  \* useRef(0), the counter the retry decision reads
  wsRef,                 \* useRef<WebSocket|null>: 0 or a socket id
  reconnectTimeoutRef,   \* useRef<number|null>: 0 or a timer id
  lastMessage,           \* useState<string>("")
  \* ---- browser objects the hook created ----
  sockets,               \* socket id -> transport state
  timers,                \* pending retry timers of the hook (setTimeout ids),
                         \* in the order they were armed
  \* ---- AvatarSystem ----
  isConnected,           \* useState(false), set by the status effect
  renderedStatus,        \* connectionStatus of the last commit (effect deps)
  sysTimer,              \* AvatarSystem.reconnectTimeoutRef timer is pending
  sysBlockers,           \* retry timers that were pending when it was armed
  \* ---- observation of the hook's API ----
  lastCall,              \* the hook function the last task called, its result
  wire,                  \* messages handed to WebSocket.send
  \* ---- AvatarSystem: recording, pipeline, history ----
  isRecording,           \* useState(false)
  isProcessing,          \* useState(false)
  mediaRecorderRef,      \* useRef<MediaRecorder|null>: 0 or a turn id
  pendingMedia,          \* getUserMedia() calls not yet settled
  recorders,             \* turn id -> MediaRecorder state
  tracks,                \* turn id -> the stream's tracks are live
  runs,                  \* turn id -> the pipeline run of the turn
  messages,              \* useState<Message[]>([]): the history
  isSpeaking,            \* useState(false)
  currentAudioUrl,       \* useState<string>(""): 0 or the run of the audio
  playing,               \* runs whose audio playAudioResponse started
  \* ---- AvatarPage (rendered by AvatarSystem) ----
  pgIsConnected,         \* useState(false)
  pgIsProcessing,        \* useState(false)
  pgAudioUrl,            \* useState<string|undefined>: 0 or a recording id
  pgIsSpeaking,          \* useState(false)
  pgAvatarResponse,      \* useState(null): << >> or <<text>>
  pgMessages,            \* useState<Message[]>([greeting])
  pgPlaying,             \* response audios playing (handleAvatarResponse)
  \* ---- VoiceRecorder ----
  vrIsRecording,         \* useState(false)
  vrAudioBlob,           \* useState<Blob|null>: 0 or a recording id
  vrMediaRecorderRef,    \* useRef<MediaRecorder|null>: 0 or a recording id
  vrPendingMedia,        \* getUserMedia() calls not yet settled
  vrTimers,              \* pending 100 ms timers of handleStopRecording,
                         \* each with the audioBlob and isProcessing of the
                         \* render its closure was made in
  \* ---- AnimatedAvatar ----
  anims,                 \* audio id -> createAnimation calls in flight
  isAnimating,           \* useState(false)
  videoUrl,              \* useState<string>(""): 0 or the audio id of the video
  stuckAnims,            \* audio id -> calls in flight whose video never
                         \* gets ready
  \* ---- avatarService.checkServices and ServiceStatus ----
  checks,                \* call id -> the call's state and its three probes
  ssServices,            \* useState({backend: false, tts: false, ...})
  ssIsChecking,          \* useState(false)
  ssLastCheck,           \* useState<Date|null>(null): a date was set
  \* ---- observation of the inbound messages ----
  arrived,               \* the messages ws.onmessage received, in order
  dispatched             \* the messages handed to handleWebSocketMessage

hookVars == <<connectionStatus, reconnectAttempts, reconnectAttemptsRef, wsRef,
              reconnectTimeoutRef, lastMessage, sockets, timers>>
sysVars == <<isConnected, renderedStatus, sysTimer, sysBlockers>>
obsVars == <<lastCall, wire>>
recVars == <<isRecording, mediaRecorderRef, pendingMedia, recorders, tracks>>
audioVars == <<isSpeaking, currentAudioUrl, playing>>
runVars == <<isProcessing, runs, messages, audioVars>>
vrVars == <<vrIsRecording, vrMediaRecorderRef, vrPendingMedia, vrTimers>>
animVars == <<anims, isAnimating, videoUrl, stuckAnims>>
pgVars == <<pgIsConnected, pgIsProcessing, pgAudioUrl, pgIsSpeaking,
            pgAvatarResponse, pgMessages, pgPlaying, vrAudioBlob>>
pageVars == <<vrVars, animVars, pgVars>>
svcVars == <<checks, ssServices, ssIsChecking, ssLastCheck>>
inboxVars == <<arrived, dispatched>>
sessVars == <<recVars, runVars, pageVars, svcVars, inboxVars>>
vars == <<hookVars, sysVars, obsVars, sessVars>>

(***************************************************************************)
(* WebSocket objects.  A socket slot is                                    *)
(*   CONNECTING  readyState 0                                              *)
(*   OPEN        readyState 1                                              *)
(*   CLOSING_C   close() was called while CONNECTING: readyState 2, the    *)
(*               connection is failed, error and close events will fire    *)
(*   CLOSING_O   close() was called while OPEN: readyState 2, a close      *)
(*               event will fire                                           *)
(*   ERRORED     readyState 3, the error event was dispatched and the      *)
(*               close event of the same task is next                      *)
(*   CLOSED      readyState 3 and no event left to fire (the close event   *)
(*               was delivered), or no object was created in the slot yet  *)
(***************************************************************************)
SockStates == {"CONNECTING", "OPEN", "CLOSING_C", "CLOSING_O", "ERRORED",
               "CLOSED"}

\* WebSocket.readyState of the object a reference holds, the sockets being
\* in states socks (null?.readyState is undefined, written "NONE").
readyState(socks, ref) ==
  IF ref = 0 THEN "NONE"
  ELSE CASE socks[ref] = "CONNECTING" -> "CONNECTING"
         [] socks[ref] = "OPEN" -> "OPEN"
         [] socks[ref] \in {"CLOSING_C", "CLOSING_O"} -> "CLOSING"
         [] OTHER -> "CLOSED"

\* The transports that hold a connection or are establishing one.
Live == {s \in SockIds : sockets[s] \in {"CONNECTING", "OPEN"}}

\* new WebSocket(url) takes the first slot no object occupies.
FreeSlots == {s \in SockIds : sockets[s] = "CLOSED"}
NewSocket == CHOOSE s \in FreeSlots : \A r \in FreeSlots : s <= r

\* setTimeout returns an id no pending timer has.
Range(q) == {q[i] : i \in 1..Len(q)}
FreeTimers == TimerIds \ Range(timers)
NewTimer == CHOOSE t \in FreeTimers : \A r \in FreeTimers : t <= r

\* clearTimeout(id): a no-op when no pending timer has the id.
clearTimeout(id) == SelectSeq(timers, LAMBDA t : t # id)

\* WebSocket.close(): a no-op on a closing or closed socket.
wsClose(s) ==
  CASE sockets[s] = "CONNECTING" -> [sockets EXCEPT ![s] = "CLOSING_C"]
    [] sockets[s] = "OPEN" -> [sockets EXCEPT ![s] = "CLOSING_O"]
    [] OTHER -> sockets

\* The error and close events of a failed connection are dispatched in one
\* task: nothing else runs between the two handlers.
MidDispatch == \E s \in SockIds : sockets[s] = "ERRORED"

NoFrame == [json |-> FALSE, type |-> "", text |-> ""]
\* lastCall: the function of the hook the last task called (fn), who called
\* it (by), and for sendMessage the frame (msg) and the value returned (ret).
NoCall == [fn |-> "none", by |-> "", msg |-> NoFrame, ret |-> FALSE]
Called(f, who) == [fn |-> f, by |-> who, msg |-> NoFrame, ret |-> FALSE]

(***************************************************************************)
(* useWebSocket: connect, disconnect, sendMessage.  Each states the        *)
(* hook variables it assigns; its caller states the rest.                  *)
(***************************************************************************)

\* useWebSocket.connect, lines 38-47.  The url is the literal
\* "ws://localhost:8000/ws" (AvatarSystem.tsx:64), which the WebSocket
\* constructor accepts, so the catch branch of lines 82-85 is not taken.
connect ==
  IF readyState(sockets, wsRef) = "OPEN"
  THEN UNCHANGED <<connectionStatus, sockets, wsRef>>
  ELSE /\ FreeSlots # {}
       /\ connectionStatus' = "Connecting"
       /\ sockets' = [sockets EXCEPT ![NewSocket] = "CONNECTING"]
       /\ wsRef' = NewSocket

\* useWebSocket.disconnect, lines 96-110.
disconnect ==
  /\ timers' = IF reconnectTimeoutRef # 0
               THEN clearTimeout(reconnectTimeoutRef) ELSE timers
  /\ reconnectTimeoutRef' = 0
  /\ sockets' = IF wsRef # 0 THEN wsClose(wsRef) ELSE sockets
  /\ wsRef' = 0
  /\ connectionStatus' = "Disconnected"
  /\ reconnectAttempts' = 0
  /\ reconnectAttemptsRef' = 0

\* useWebSocket.sendMessage, lines 112-120, the sockets being in states socks:
\* the value it returns.
sendReturns(socks) == readyState(socks, wsRef) = "OPEN"

\* sendMessage that hands the frame to the transport whatever its state.
sendMessageUnchecked(m, socks) ==
  /\ lastCall' = [fn |-> "sendMessage", by |-> IF m.json THEN "user" ELSE "onOpen",
                  msg |-> m, ret |-> sendReturns(socks)]
  /\ wire' = wire \cup {m}

\* useWebSocket.sendMessage, lines 112-120: what it transmits and returns.
sendMessage(m, socks) ==
  /\ lastCall' = [fn |-> "sendMessage", by |-> IF m.json THEN "user" ELSE "onOpen",
                  msg |-> m, ret |-> sendReturns(socks)]
  /\ wire' = IF sendReturns(socks) THEN wire \cup {m} ELSE wire

\* The connection-status effect, AvatarSystem.tsx:90-103, run with the
\* committed status.  armed tells whether the 5 s timer was pending and
\* blockers which retry timers are due before it.  A timer armed now is due
\* after every retry timer that is pending now (reconnectInterval = 3000,
\* useWebSocket.ts:25, against 5000, AvatarSystem.tsx:101).
statusEffect(status, armed, blockers) ==
  /\ isConnected' = (status = "Connected")
  /\ renderedStatus' = status
  /\ IF status \in {"Disconnected", "Error"}
     THEN sysTimer' = TRUE /\ sysBlockers' = Range(timers')
     ELSE sysTimer' = armed /\ sysBlockers' = blockers

\* The commit that follows a task: the effect runs when its dependency
\* connectionStatus differs from the last commit (connect is a stable
\* callback).
commit(status, armed, blockers) ==
  IF status # renderedStatus
  THEN statusEffect(status, armed, blockers)
  ELSE /\ sysTimer' = armed
       /\ sysBlockers' = blockers
       /\ UNCHANGED <<isConnected, renderedStatus>>

(***************************************************************************)
(* Transport events: the handlers connect() installs on each socket        *)
(* (lines 49-81).  They run for the socket that fires the event, whether   *)
(* or not wsRef still holds it.                                            *)
(***************************************************************************)

\* ws.onopen that resets the reported counter but not the one the retry
\* decision reads.
SockOpenKeepsRef(s) ==
  /\ ~MidDispatch
  /\ sockets[s] = "CONNECTING"
  /\ sockets' = [sockets EXCEPT ![s] = "OPEN"]
  /\ connectionStatus' = "Connected"
  /\ reconnectAttempts' = 0
  /\ sendMessage(Ping, sockets')
  /\ UNCHANGED <<wsRef, reconnectAttemptsRef, reconnectTimeoutRef, lastMessage,
                 timers>>
  /\ commit(connectionStatus', sysTimer, sysBlockers)
  /\ UNCHANGED sessVars

\* ws.onopen, lines 49-54, with onOpen = AvatarSystem.handleWSOpen
\* (AvatarSystem.tsx:43-48), which sends "ping".
SockOpen(s) ==
  /\ ~MidDispatch
  /\ sockets[s] = "CONNECTING"
  /\ sockets' = [sockets EXCEPT ![s] = "OPEN"]
  /\ connectionStatus' = "Connected"
  /\ reconnectAttempts' = 0
  /\ reconnectAttemptsRef' = 0
  /\ sendMessage(Ping, sockets')
  /\ UNCHANGED <<wsRef, reconnectTimeoutRef, lastMessage, timers>>
  /\ commit(connectionStatus', sysTimer, sysBlockers)
  /\ UNCHANGED sessVars

\* ws.onerror, lines 78-81: the connection failed (while connecting, while
\* open, or because close() was called before it was established).
SockError(s) ==
  /\ ~MidDispatch
  /\ sockets[s] \in {"CONNECTING", "OPEN", "CLOSING_C"}
  /\ sockets' = [sockets EXCEPT ![s] = "ERRORED"]
  /\ connectionStatus' = "Error"
  /\ lastCall' = NoCall
  /\ UNCHANGED <<reconnectAttempts, reconnectAttemptsRef, wsRef,
                 reconnectTimeoutRef, lastMessage, timers>>
  /\ UNCHANGED <<sysVars, wire>>
  /\ UNCHANGED sessVars

\* ws.onclose with the retry decision off by one (<= for <).
SockCloseOffByOne(s) ==
  /\ sockets[s] = "ERRORED" \/ (~MidDispatch /\ sockets[s] \in {"OPEN", "CLOSING_O"})
  /\ sockets' = [sockets EXCEPT ![s] = "CLOSED"]
  /\ IF reconnectAttemptsRef <= maxReconnectAttempts
     THEN /\ FreeTimers # {}
          /\ connectionStatus' = "Disconnected"
          /\ reconnectAttemptsRef' = reconnectAttemptsRef + 1
          /\ reconnectAttempts' = reconnectAttemptsRef + 1
          /\ reconnectTimeoutRef' = NewTimer
          /\ timers' = Append(timers, NewTimer)
     ELSE /\ connectionStatus' = "Error"
          /\ UNCHANGED <<reconnectAttemptsRef, reconnectAttempts,
                         reconnectTimeoutRef, timers>>
  /\ lastCall' = NoCall
  /\ UNCHANGED <<wsRef, lastMessage>>
  /\ commit(connectionStatus', sysTimer, sysBlockers)
  /\ UNCHANGED wire
  /\ UNCHANGED sessVars

\* ws.onclose, lines 61-76: after an error event, or a clean close of an
\* open or closing socket.
SockClose(s) ==
  /\ sockets[s] = "ERRORED" \/ (~MidDispatch /\ sockets[s] \in {"OPEN", "CLOSING_O"})
  /\ sockets' = [sockets EXCEPT ![s] = "CLOSED"]
  /\ IF reconnectAttemptsRef < maxReconnectAttempts
     THEN /\ FreeTimers # {}
          /\ connectionStatus' = "Disconnected"
          /\ reconnectAttemptsRef' = reconnectAttemptsRef + 1
          /\ reconnectAttempts' = reconnectAttemptsRef + 1
          /\ reconnectTimeoutRef' = NewTimer
          /\ timers' = Append(timers, NewTimer)
     ELSE /\ connectionStatus' = "Error"
          /\ UNCHANGED <<reconnectAttemptsRef, reconnectAttempts,
                         reconnectTimeoutRef, timers>>
  /\ lastCall' = NoCall
  /\ UNCHANGED <<wsRef, lastMessage>>
  /\ commit(connectionStatus', sysTimer, sysBlockers)
  /\ UNCHANGED wire
  /\ UNCHANGED sessVars

\* The retry timer of lines 70-72 fires.  The timers have one delay, so
\* they fire in the order they were armed.
ReconnectTimer ==
  /\ ~MidDispatch
  /\ timers # << >>
  /\ timers' = Tail(timers)
  /\ connect
  /\ lastCall' = Called("connect", "retryTimer")
  /\ UNCHANGED <<reconnectAttempts, reconnectAttemptsRef, reconnectTimeoutRef,
                 lastMessage>>
  /\ commit(connectionStatus', sysTimer, sysBlockers \ {Head(timers)})
  /\ UNCHANGED wire
  /\ UNCHANGED sessVars

(***************************************************************************)
(* AvatarSystem: what it does with the connection.                         *)
(***************************************************************************)

\* The 5 s timer of AvatarSystem.tsx:98-101 fires, after the retry timers
\* that are due before it.
SysTimer ==
  /\ ~MidDispatch
  /\ sysTimer
  /\ sysBlockers = {}
  /\ connect
  /\ lastCall' = Called("connect", "sysTimer")
  /\ UNCHANGED <<reconnectAttempts, reconnectAttemptsRef, reconnectTimeoutRef,
                 lastMessage, timers>>
  /\ commit(connectionStatus', FALSE, {})
  /\ UNCHANGED wire
  /\ UNCHANGED sessVars

\* The connectionStatus that checkServicesStatus reads: the interval of
\* AvatarSystem.tsx:83-87 keeps the closure of the first render.
closureStatus == "Disconnected"

\* AvatarSystem.checkServicesStatus, lines 119-134, resumed with the result
\* of avatarService.checkServices(): every service up or not.
CheckServicesStatus(allUp) ==
  /\ ~MidDispatch
  /\ IF allUp /\ closureStatus # "Connected"
     THEN connect /\ lastCall' = Called("connect", "serviceCheck")
     ELSE UNCHANGED <<connectionStatus, sockets, wsRef>> /\ lastCall' = NoCall
  /\ UNCHANGED <<reconnectAttempts, reconnectAttemptsRef, reconnectTimeoutRef,
                 lastMessage, timers>>
  /\ commit(connectionStatus', sysTimer, sysBlockers)
  /\ UNCHANGED wire
  /\ UNCHANGED sessVars

\* AvatarSystem.handleConnect, lines 338-344.
HandleConnect ==
  /\ ~MidDispatch
  /\ IF isConnected
     THEN /\ disconnect
          /\ lastCall' = Called("disconnect", "user")
          /\ UNCHANGED lastMessage
     ELSE /\ connect
          /\ lastCall' = Called("connect", "user")
          /\ UNCHANGED <<reconnectAttempts, reconnectAttemptsRef,
                         reconnectTimeoutRef, lastMessage, timers>>
  /\ commit(connectionStatus', sysTimer, sysBlockers \cap Range(timers'))
  /\ UNCHANGED wire
  /\ UNCHANGED sessVars

(***************************************************************************)
(* AvatarSystem: recording and the audio pipeline.                         *)
(***************************************************************************)

\* A pipeline run: the stage it waits in, the requests it issued, whether
\* the status was Connected when it started, the texts the services
\* returned, the stage that failed, the component that awaits the run, its
\* position in the order the runs started, and whether the request it waits
\* for is one the service never answers.
NoRun == [stage |-> "none", calls |-> {}, connected |-> FALSE,
          recognizedText |-> "", aiResponse |-> "", failedAt |-> "none",
          by |-> "none", seq |-> 0, hung |-> FALSE]

\* The stages in which a run waits for an inference service.
Waiting == {"recognize", "generate", "synthesize", "audio"}
InFlight == {k \in TurnIds : runs[k].stage \in Waiting}

Created == {k \in TurnIds : recorders[k] # "none"}
NewTurn == CHOOSE k \in TurnIds \ Created : \A r \in TurnIds \ Created : k <= r

\* AvatarSystem.startRecording, lines 192-200, up to the await of
\* getUserMedia.
StartRecording ==
  /\ ~MidDispatch
  /\ IF ~isConnected
     THEN UNCHANGED pendingMedia
     ELSE /\ pendingMedia + Cardinality(Created) < MaxTurns
          /\ pendingMedia' = pendingMedia + 1
  /\ lastCall' = NoCall
  /\ UNCHANGED <<isRecording, mediaRecorderRef, recorders, tracks>>
  /\ UNCHANGED <<hookVars, sysVars, svcVars, inboxVars, wire, runVars, pageVars>>

\* startRecording resumed with the stream, lines 201-216.
MediaGranted ==
  /\ ~MidDispatch
  /\ pendingMedia > 0
  /\ pendingMedia' = pendingMedia - 1
  /\ mediaRecorderRef' = NewTurn
  /\ recorders' = [recorders EXCEPT ![NewTurn] = "recording"]
  /\ tracks' = [tracks EXCEPT ![NewTurn] = TRUE]
  /\ isRecording' = TRUE
  /\ lastCall' = NoCall
  /\ UNCHANGED <<hookVars, sysVars, svcVars, inboxVars, wire, runVars, pageVars>>

\* getUserMedia rejected: the catch of lines 217-220.
MediaDenied ==
  /\ ~MidDispatch
  /\ pendingMedia > 0
  /\ pendingMedia' = pendingMedia - 1
  /\ lastCall' = NoCall
  /\ UNCHANGED <<isRecording, mediaRecorderRef, recorders, tracks>>
  /\ UNCHANGED <<hookVars, sysVars, svcVars, inboxVars, wire, runVars, pageVars>>

\* startRecording resumed with the stream, and mediaRecorder.start() of
\* line 214 throws (lines 201-214): the catch of lines 217-220 reports the
\* error and leaves the stream as it is.
RecorderStartFails ==
  /\ ~MidDispatch
  /\ pendingMedia > 0
  /\ pendingMedia' = pendingMedia - 1
  /\ mediaRecorderRef' = NewTurn
  /\ recorders' = [recorders EXCEPT ![NewTurn] = "inactive"]
  /\ tracks' = [tracks EXCEPT ![NewTurn] = TRUE]
  /\ lastCall' = NoCall
  /\ UNCHANGED isRecording
  /\ UNCHANGED <<hookVars, sysVars, svcVars, inboxVars, wire, runVars, pageVars>>

\* AvatarSystem.stopRecording, lines 224-232.  MediaRecorder.stop() throws
\* on a recorder that is not recording, which ends the handler.
StopRecording ==
  /\ ~MidDispatch
  /\ IF mediaRecorderRef # 0 /\ isRecording
        /\ recorders[mediaRecorderRef] = "recording"
     THEN /\ recorders' = [recorders EXCEPT ![mediaRecorderRef] = "stopping"]
          /\ tracks' = [tracks EXCEPT ![mediaRecorderRef] = FALSE]
          /\ isRecording' = FALSE
     ELSE UNCHANGED <<recorders, tracks, isRecording>>
  /\ lastCall' = NoCall
  /\ UNCHANGED <<mediaRecorderRef, pendingMedia>>
  /\ UNCHANGED <<hookVars, sysVars, svcVars, inboxVars, wire, runVars, pageVars>>

Started == {k \in TurnIds : runs[k].stage # "none"}

\* avatarService.processAudioInput(blob) called by component who, up to the
\* fetch of recognizeSpeech (avatarService.ts:27-35, 130-133).
startRun(who, conn) ==
  [NoRun EXCEPT !.stage = "recognize", !.calls = {"recognize"},
                !.connected = conn, !.by = who,
                !.seq = Cardinality(Started) + 1]

\* The effect of AnimatedAvatar on [audioUrl, isSpeaking]
\* (AnimatedAvatar.tsx:27-31) in the commit that makes them url and
\* speaking, and the start of createAnimation (lines 36-42).
animEffect(url, speaking) ==
  IF (url # pgAudioUrl \/ speaking # pgIsSpeaking) /\ url # 0 /\ speaking
  THEN /\ anims' = [anims EXCEPT ![url] = @ + 1]
       /\ isAnimating' = TRUE
       /\ UNCHANGED <<videoUrl, stuckAnims>>
  ELSE UNCHANGED animVars

\* A run ends with an error: the catch and finally of the caller,
\* AvatarSystem.processAudioInput (AvatarSystem.tsx:264-271) or
\* VoiceRecorder.handleSendAudio (VoiceRecorder.tsx, part_001:366-374).
runFails(k, run) ==
  /\ runs' = [runs EXCEPT ![k] = [run EXCEPT !.stage = "failed",
                                             !.failedAt = runs[k].stage]]
  /\ IF run.by = "VoiceRecorder"
     THEN /\ pgIsProcessing' = FALSE
          /\ UNCHANGED <<pgIsConnected, pgAudioUrl, pgIsSpeaking,
                         pgAvatarResponse, pgMessages, pgPlaying, vrAudioBlob>>
          /\ UNCHANGED isProcessing
     ELSE /\ isProcessing' = FALSE
          /\ UNCHANGED pgVars
  /\ UNCHANGED <<messages, audioVars, animVars>>

\* A run goes on to its next stage and issues that stage's request.
runCalls(k, stage, run) ==
  /\ runs' = [runs EXCEPT ![k] = [run EXCEPT !.stage = stage,
                                             !.calls = @ \cup {stage}]]
  /\ UNCHANGED <<isProcessing, messages, audioVars, animVars, pgVars>>

\* mediaRecorder.onstop, lines 208-213: AvatarSystem.processAudioInput
\* (lines 235-241) and avatarService.processAudioInput up to the fetch of
\* recognizeSpeech.
RecorderStop(k) ==
  /\ ~MidDispatch
  /\ recorders[k] = "stopping"
  /\ recorders' = [recorders EXCEPT ![k] = "inactive"]
  /\ isProcessing' = TRUE
  /\ runs' = [runs EXCEPT ![k] =
                startRun("AvatarSystem", connectionStatus = "Connected")]
  /\ lastCall' = NoCall
  /\ UNCHANGED <<isRecording, mediaRecorderRef, pendingMedia, tracks, messages,
                 audioVars>>
  /\ UNCHANGED <<hookVars, sysVars, svcVars, inboxVars, wire, pageVars>>

\* The request a run waits for is one the service never answers: fetch has
\* no timeout (avatarService.ts:32-35, 53-64, 82-93, 102-104), so its
\* promise never settles.
RequestHangs(k) ==
  /\ ~MidDispatch
  /\ runs[k].stage \in Waiting
  /\ ~runs[k].hung
  /\ runs' = [runs EXCEPT ![k].hung = TRUE]
  /\ lastCall' = NoCall
  /\ UNCHANGED <<isProcessing, messages, audioVars>>
  /\ UNCHANGED <<hookVars, sysVars, svcVars, inboxVars, wire, recVars, pageVars>>

\* The recognition request settles, the blank-text test being text # ""
\* (no trim).
RecognizeSettledNoTrim(k, ok, text) ==
  /\ ~MidDispatch
  /\ runs[k].stage = "recognize"
  /\ ~runs[k].hung
  /\ IF ok /\ text # ""
     THEN runCalls(k, "generate", [runs[k] EXCEPT !.recognizedText = text])
     ELSE runFails(k, runs[k])
  /\ lastCall' = NoCall
  /\ UNCHANGED <<hookVars, sysVars, svcVars, inboxVars, wire, recVars, vrVars>>

\* The recognition request settles: avatarService.ts:37-46 and 135-141.
\* ok is false for a network error, a non-2xx status or an unreadable body;
\* otherwise text is recognition.text.
RecognizeSettled(k, ok, text) ==
  /\ ~MidDispatch
  /\ runs[k].stage = "recognize"
  /\ ~runs[k].hung
  /\ IF ok /\ trim(text) # ""
     THEN runCalls(k, "generate", [runs[k] EXCEPT !.recognizedText = text])
     ELSE IF ok THEN runFails(k, [runs[k] EXCEPT !.recognizedText = text])
          ELSE runFails(k, runs[k])
  /\ lastCall' = NoCall
  /\ UNCHANGED <<hookVars, sysVars, svcVars, inboxVars, wire, recVars, vrVars>>

\* The generation request settles: avatarService.ts:66-75 and 143-145.
GenerateSettled(k, ok, text) ==
  /\ ~MidDispatch
  /\ runs[k].stage = "generate"
  /\ ~runs[k].hung
  /\ IF ok
     THEN runCalls(k, "synthesize", [runs[k] EXCEPT !.aiResponse = text])
     ELSE runFails(k, runs[k])
  /\ lastCall' = NoCall
  /\ UNCHANGED <<hookVars, sysVars, svcVars, inboxVars, wire, recVars, vrVars>>

\* POST /synthesize settles and the audio file is requested whatever the
\* response was (no test of response.ok).
SynthesizeSettledNoCheck(k, ok) ==
  /\ ~MidDispatch
  /\ runs[k].stage = "synthesize"
  /\ ~runs[k].hung
  /\ runCalls(k, "audio", [runs[k] EXCEPT
                 !.failedAt = IF ok THEN "none" ELSE "synthesize"])
  /\ lastCall' = NoCall
  /\ UNCHANGED <<hookVars, sysVars, svcVars, inboxVars, wire, recVars, vrVars>>

\* POST /synthesize settles: avatarService.ts:95-104.
SynthesizeSettled(k, ok) ==
  /\ ~MidDispatch
  /\ runs[k].stage = "synthesize"
  /\ ~runs[k].hung
  /\ IF ok THEN runCalls(k, "audio", runs[k]) ELSE runFails(k, runs[k])
  /\ lastCall' = NoCall
  /\ UNCHANGED <<hookVars, sysVars, svcVars, inboxVars, wire, recVars, vrVars>>

\* The rest of AvatarSystem.processAudioInput after the await, lines
\* 243-263 and 269-271, with playAudioResponse up to audio.play()
\* (lines 275-286).
systemResponse(k) ==
  /\ messages' = messages \o
       << [type |-> "user", text |-> runs[k].recognizedText],
          [type |-> "assistant", text |-> runs[k].aiResponse] >>
  /\ isSpeaking' = TRUE
  /\ currentAudioUrl' = k
  /\ playing' = playing \cup {k}
  /\ isProcessing' = FALSE
  /\ UNCHANGED <<animVars, pgVars>>

\* The rest of VoiceRecorder.handleSendAudio after the await (part_001:
\* 346-374): onResponseReceived({text: result.aiResponse, audioUrl}), which
\* AvatarPage.tsx:151 passes to handleAvatarResponse (lines 52-97) with
\* recognizedText: resp.text, then setAudioBlob(null) and
\* onProcessingChange(false).
pageResponse(k) ==
  /\ pgAvatarResponse' = <<runs[k].aiResponse>>
  /\ pgIsSpeaking' = TRUE
  /\ pgMessages' =
       IF runs[k].aiResponse # ""
       THEN pgMessages \o
              << [sender |-> "user", text |-> runs[k].aiResponse],
                 [sender |-> "avatar", text |-> runs[k].aiResponse] >>
       ELSE pgMessages
  /\ pgPlaying' = pgPlaying + 1
  /\ vrAudioBlob' = 0
  /\ pgIsProcessing' = FALSE
  /\ animEffect(pgAudioUrl, TRUE)
  /\ UNCHANGED <<pgIsConnected, pgAudioUrl>>
  /\ UNCHANGED <<isProcessing, messages, audioVars>>

\* GET /audio/{id} settles: avatarService.ts:105-115 and 147-151, then the
\* caller's continuation.
AudioSettled(k, ok) ==
  /\ ~MidDispatch
  /\ runs[k].stage = "audio"
  /\ ~runs[k].hung
  /\ IF ok
     THEN /\ runs' = [runs EXCEPT ![k].stage = "done"]
          /\ IF runs[k].by = "VoiceRecorder"
             THEN pageResponse(k) ELSE systemResponse(k)
     ELSE runFails(k, runs[k])
  /\ lastCall' = NoCall
  /\ UNCHANGED <<hookVars, sysVars, svcVars, inboxVars, wire, recVars, vrVars>>

\* The audio of AvatarSystem.playAudioResponse finishes: audio.onended
\* (lines 281-284) when it played to its end, the catch of lines 287-291
\* when audio.play() rejected.
AudioFinished(k, played) ==
  /\ ~MidDispatch
  /\ k \in playing
  /\ playing' = playing \ {k}
  /\ isSpeaking' = FALSE
  /\ currentAudioUrl' = IF played THEN 0 ELSE currentAudioUrl
  /\ lastCall' = NoCall
  /\ UNCHANGED <<isProcessing, runs, messages>>
  /\ UNCHANGED <<hookVars, sysVars, svcVars, inboxVars, wire, recVars, pageVars>>

\* The frames the server sends, as the JSON texts of event.data: an
\* assistant response without audio, a processing status and an error.
Inbound == {"{type:assistant_response,text:a1}",
            "{type:processing_status,processing:true}",
            "{type:error}"}

\* JSON.parse of the frames of the model.
parse(m) ==
  CASE m = "{type:assistant_response,text:a1}"
         -> [type |-> "assistant_response", text |-> "a1", processing |-> FALSE]
    [] m = "{type:processing_status,processing:true}"
         -> [type |-> "processing_status", text |-> "", processing |-> TRUE]
    [] m = "{type:error}"
         -> [type |-> "error", text |-> "", processing |-> FALSE]

\* handleWebSocketMessage whose assistant response goes to the front of
\* the history.
handleWebSocketMessagePrepends(data) ==
  CASE data.type = "assistant_response"
         -> /\ messages' = << [type |-> "assistant", text |-> data.text] >>
                              \o messages
            /\ isSpeaking' = TRUE
            /\ isProcessing' = FALSE
    [] data.type = "processing_status"
         -> /\ isProcessing' = data.processing
            /\ UNCHANGED <<messages, isSpeaking>>
    [] data.type = "error"
         -> /\ isProcessing' = FALSE
            /\ isSpeaking' = FALSE
            /\ UNCHANGED messages
    [] OTHER -> UNCHANGED <<messages, isSpeaking, isProcessing>>

\* AvatarSystem.handleWebSocketMessage, lines 137-154, with
\* handleAssistantResponse (157-174, data.audio undefined),
\* handleProcessingStatus (177-182) and handleErrorMessage (185-189).
handleWebSocketMessage(data) ==
  CASE data.type = "assistant_response"
         -> /\ messages' = Append(messages, [type |-> "assistant",
                                             text |-> data.text])
            /\ isSpeaking' = TRUE
            /\ isProcessing' = FALSE
    [] data.type = "processing_status"
         -> /\ isProcessing' = data.processing
            /\ UNCHANGED <<messages, isSpeaking>>
    [] data.type = "error"
         -> /\ isProcessing' = FALSE
            /\ isSpeaking' = FALSE
            /\ UNCHANGED messages
    [] OTHER -> UNCHANGED <<messages, isSpeaking, isProcessing>>

\* ws.onmessage, useWebSocket.ts:56-59, with onMessage =
\* AvatarSystem.handleWSMessage, which logs (AvatarSystem.tsx:58-60), and
\* the commit: the lastMessage effect (AvatarSystem.tsx:106-116) runs when
\* the state lastMessage differs from the one of the last commit.
SockMessage(s, m) ==
  /\ ~MidDispatch
  /\ sockets[s] = "OPEN"
  /\ Len(arrived) < MaxInbound
  /\ arrived' = Append(arrived, m)
  /\ lastMessage' = m
  /\ IF m # lastMessage /\ m # ""
     THEN /\ dispatched' = Append(dispatched, m)
          /\ handleWebSocketMessage(parse(m))
     ELSE UNCHANGED <<dispatched, messages, isSpeaking, isProcessing>>
  /\ lastCall' = NoCall
  /\ UNCHANGED <<connectionStatus, reconnectAttempts, reconnectAttemptsRef,
                 wsRef, reconnectTimeoutRef, sockets, timers>>
  /\ UNCHANGED <<sysVars, wire, recVars, runs, currentAudioUrl, playing,
                 pageVars, svcVars>>

\* AvatarSystem.handleSendText, lines 295-322, with inputText = text.
\* A text is typed once.
HandleSendText(text) ==
  /\ ~MidDispatch
  /\ \A i \in 1..Len(messages) : messages[i] # [type |-> "user", text |-> text]
  /\ IF trim(text) = "" \/ ~isConnected
     THEN lastCall' = NoCall /\ UNCHANGED <<messages, isProcessing, wire>>
     ELSE /\ messages' = Append(messages, [type |-> "user", text |-> text])
          /\ isProcessing' = TRUE
          /\ sendMessage(UserMessage(text), sockets)
  /\ UNCHANGED <<runs, audioVars>>
  /\ UNCHANGED <<hookVars, sysVars, svcVars, inboxVars, recVars, pageVars>>

(***************************************************************************)
(* AvatarPage with its VoiceRecorder and AnimatedAvatar, which             *)
(* AvatarSystem renders (AvatarSystem.tsx:385).  The page keeps its own    *)
(* isConnected, set by its button alone, its own isProcessing and its own  *)
(* message list.  A button's handler runs when the button is rendered and  *)
(* enabled.                                                                *)
(***************************************************************************)

\* AvatarPage.handleConnect / handleDisconnect, lines 32-40: the button of
\* lines 132-140.
PageConnect ==
  /\ ~MidDispatch
  /\ pgIsConnected' = ~pgIsConnected
  /\ lastCall' = NoCall
  /\ UNCHANGED <<pgIsProcessing, pgAudioUrl, pgIsSpeaking, pgAvatarResponse,
                 pgMessages, pgPlaying, vrAudioBlob>>
  /\ UNCHANGED <<hookVars, sysVars, svcVars, inboxVars, wire, recVars, runVars, vrVars, animVars>>

\* VoiceRecorder.handleStartRecording (part_001:288-295) up to the await of
\* getUserMedia; the button of lines 382-388.
VRStartRecording ==
  /\ ~MidDispatch
  /\ ~vrIsRecording
  /\ pgIsConnected /\ ~pgIsProcessing
  /\ vrPendingMedia + Cardinality(Created) < MaxTurns
  /\ vrPendingMedia' = vrPendingMedia + 1
  /\ lastCall' = NoCall
  /\ UNCHANGED <<vrIsRecording, vrMediaRecorderRef, vrTimers>>
  /\ UNCHANGED <<hookVars, sysVars, svcVars, inboxVars, wire, recVars, runVars, animVars, pgVars>>

\* handleStartRecording resumed with the stream, part_001:296-313.
VRMediaGranted ==
  /\ ~MidDispatch
  /\ vrPendingMedia > 0
  /\ vrPendingMedia' = vrPendingMedia - 1
  /\ vrMediaRecorderRef' = NewTurn
  /\ recorders' = [recorders EXCEPT ![NewTurn] = "recording"]
  /\ tracks' = [tracks EXCEPT ![NewTurn] = TRUE]
  /\ vrIsRecording' = TRUE
  /\ lastCall' = NoCall
  /\ UNCHANGED <<isRecording, mediaRecorderRef, pendingMedia, vrTimers>>
  /\ UNCHANGED <<hookVars, sysVars, svcVars, inboxVars, wire, runVars, animVars, pgVars>>

\* getUserMedia rejected: the catch of part_001:314-317.
VRMediaDenied ==
  /\ ~MidDispatch
  /\ vrPendingMedia > 0
  /\ vrPendingMedia' = vrPendingMedia - 1
  /\ lastCall' = NoCall
  /\ UNCHANGED <<vrIsRecording, vrMediaRecorderRef, vrTimers>>
  /\ UNCHANGED <<hookVars, sysVars, svcVars, inboxVars, wire, recVars, runVars, animVars, pgVars>>

\* VoiceRecorder.handleStopRecording, part_001:320-333; the button of line
\* 390.  The timer's callback keeps the audioBlob and the handleSendAudio of
\* the render the click happened in.
VRStopRecording ==
  /\ ~MidDispatch
  /\ vrIsRecording
  /\ vrIsRecording' = FALSE
  /\ recorders' = IF vrMediaRecorderRef # 0
                     /\ recorders[vrMediaRecorderRef] = "recording"
                  THEN [recorders EXCEPT ![vrMediaRecorderRef] = "stopping"]
                  ELSE recorders
  /\ vrTimers' = Append(vrTimers, [audioBlob |-> vrAudioBlob,
                                   isProcessing |-> pgIsProcessing])
  /\ lastCall' = NoCall
  /\ UNCHANGED <<vrMediaRecorderRef, vrPendingMedia>>
  /\ UNCHANGED <<isRecording, mediaRecorderRef, pendingMedia, tracks>>
  /\ UNCHANGED <<hookVars, sysVars, svcVars, inboxVars, wire, runVars, animVars, pgVars>>

\* mediaRecorder.onstop of VoiceRecorder, part_001:304-310, with
\* onAudioReady = AvatarPage.handleAudioReady (AvatarPage.tsx:43-49).
VRRecorderStop(r) ==
  /\ ~MidDispatch
  /\ recorders[r] = "stopping"
  /\ recorders' = [recorders EXCEPT ![r] = "inactive"]
  /\ tracks' = [tracks EXCEPT ![r] = FALSE]
  /\ vrAudioBlob' = r
  /\ pgIsProcessing' = TRUE
  /\ pgIsSpeaking' = TRUE
  /\ pgAudioUrl' = r
  /\ animEffect(r, TRUE)
  /\ lastCall' = NoCall
  /\ UNCHANGED <<pgIsConnected, pgAvatarResponse, pgMessages, pgPlaying>>
  /\ UNCHANGED <<isRecording, mediaRecorderRef, pendingMedia>>
  /\ UNCHANGED <<hookVars, sysVars, svcVars, inboxVars, wire, runVars, vrVars>>

NewRun == CHOOSE k \in TurnIds \ Started : \A r \in TurnIds \ Started : k <= r

\* VoiceRecorder.handleSendAudio, part_001:335-345, up to the await, in the
\* render whose audioBlob and isProcessing are blob and processing.
handleSendAudio(blob, processing) ==
  IF blob = 0 \/ processing
  THEN UNCHANGED <<pgIsProcessing, runs>>
  ELSE /\ TurnIds \ Started # {}
       /\ pgIsProcessing' = TRUE
       /\ runs' = [runs EXCEPT ![NewRun] =
                     startRun("VoiceRecorder", pgIsConnected)]

\* The 100 ms timer of handleStopRecording fires, part_001:327-332.
VRAutoSend ==
  /\ ~MidDispatch
  /\ vrTimers # << >>
  /\ vrTimers' = Tail(vrTimers)
  /\ handleSendAudio(Head(vrTimers).audioBlob, Head(vrTimers).isProcessing)
  /\ lastCall' = NoCall
  /\ UNCHANGED <<vrIsRecording, vrMediaRecorderRef, vrPendingMedia>>
  /\ UNCHANGED <<pgIsConnected, pgAudioUrl, pgIsSpeaking, pgAvatarResponse,
                 pgMessages, pgPlaying, vrAudioBlob>>
  /\ UNCHANGED <<isProcessing, messages, audioVars>>
  /\ UNCHANGED <<hookVars, sysVars, svcVars, inboxVars, wire, recVars, animVars>>

\* The send button, part_001:436-442.
VRSendClick ==
  /\ ~MidDispatch
  /\ vrAudioBlob # 0 /\ ~pgIsProcessing
  /\ handleSendAudio(vrAudioBlob, pgIsProcessing)
  /\ lastCall' = NoCall
  /\ UNCHANGED <<pgIsConnected, pgAudioUrl, pgIsSpeaking, pgAvatarResponse,
                 pgMessages, pgPlaying, vrAudioBlob>>
  /\ UNCHANGED <<isProcessing, messages, audioVars>>
  /\ UNCHANGED <<hookVars, sysVars, svcVars, inboxVars, wire, recVars, vrVars, animVars>>

\* The cancel button, part_001:444-454.
VRCancel ==
  /\ ~MidDispatch
  /\ vrAudioBlob # 0 /\ ~pgIsProcessing
  /\ vrAudioBlob' = 0
  /\ lastCall' = NoCall
  /\ UNCHANGED <<pgIsConnected, pgIsProcessing, pgAudioUrl, pgIsSpeaking,
                 pgAvatarResponse, pgMessages, pgPlaying>>
  /\ UNCHANGED <<hookVars, sysVars, svcVars, inboxVars, wire, recVars, runVars, vrVars, animVars>>

\* audio.onended of the response audio, AvatarPage.tsx:94-96.
ResponseAudioEnded ==
  /\ ~MidDispatch
  /\ pgPlaying > 0
  /\ pgPlaying' = pgPlaying - 1
  /\ pgIsSpeaking' = FALSE
  /\ animEffect(pgAudioUrl, FALSE)
  /\ lastCall' = NoCall
  /\ UNCHANGED <<pgIsConnected, pgIsProcessing, pgAudioUrl, pgAvatarResponse,
                 pgMessages, vrAudioBlob>>
  /\ UNCHANGED <<hookVars, sysVars, svcVars, inboxVars, wire, recVars, runVars, vrVars>>

\* AnimatedAvatar.createAnimation for audio a ends (AnimatedAvatar.tsx:
\* 42-80): with the video, and onVideoReady = AvatarPage.handleVideoReady
\* (AvatarPage.tsx:100-104), or in its catch.
AnimationSettled(a, ok) ==
  /\ ~MidDispatch
  /\ anims[a] > stuckAnims[a]
  /\ anims' = [anims EXCEPT ![a] = @ - 1]
  /\ isAnimating' = FALSE
  /\ UNCHANGED stuckAnims
  /\ IF ok
     THEN /\ videoUrl' = a
          /\ pgIsProcessing' = FALSE
          /\ pgIsSpeaking' = FALSE
          /\ pgAudioUrl' = 0
     ELSE UNCHANGED <<videoUrl, pgIsProcessing, pgIsSpeaking, pgAudioUrl>>
  /\ lastCall' = NoCall
  /\ UNCHANGED <<pgIsConnected, pgAvatarResponse, pgMessages, pgPlaying,
                 vrAudioBlob>>
  /\ UNCHANGED <<hookVars, sysVars, svcVars, inboxVars, wire, recVars, runVars, vrVars>>

\* The video of a createAnimation call for audio a is one the endpoint
\* never reports as ready: checkVideo (AnimatedAvatar.tsx:88-101) schedules
\* itself again after every answer that is not 2xx and after every failed
\* request, without limit, and the promise of waitForVideo is never
\* rejected, so the await of line 69 never returns.
VideoNeverReady(a) ==
  /\ ~MidDispatch
  /\ anims[a] > stuckAnims[a]
  /\ stuckAnims' = [stuckAnims EXCEPT ![a] = @ + 1]
  /\ lastCall' = NoCall
  /\ UNCHANGED <<anims, isAnimating, videoUrl>>
  /\ UNCHANGED <<hookVars, sysVars, svcVars, inboxVars, wire, recVars, runVars,
                 vrVars, pgVars>>

(***************************************************************************)
(* avatarService.checkServices and its caller ServiceStatus.               *)
(***************************************************************************)

\* A probe (one fetch of a /health endpoint) is pending, answered with a
\* 2xx status ("ok"), answered with another status ("bad"), rejected by a
\* network failure ("failed"), or sent to an endpoint that never answers
\* ("hung": fetch is called without timeout or abort signal, so the promise
\* never settles).
ProbeStates == {"pending", "ok", "bad", "failed", "hung"}
Settled == {"ok", "bad", "failed"}

NoCheck == [state |-> "idle",
            probes |-> [v \in Services |-> "pending"],
            threw |-> FALSE,
            status |-> [v \in Services |-> FALSE]]

\* checkServices that awaits its probes with Promise.all: one rejected
\* probe rejects the call.
checkServicesFailFast(probes) ==
  IF \E v \in Services : probes[v] = "failed"
  THEN [threw |-> TRUE, status |-> [v \in Services |-> FALSE]]
  ELSE [threw |-> FALSE, status |-> [v \in Services |-> probes[v] = "ok"]]

\* What avatarService.checkServices returns once Promise.allSettled has
\* resolved, lines 172-176: status === "fulfilled" && value.ok per probe.
checkServicesResult(probes) ==
  [threw |-> FALSE,
   status |-> [v \in Services |-> probes[v] \in {"ok", "bad"} /\ probes[v] = "ok"]]

FreeChecks == {c \in CheckIds : checks[c].state # "waiting"}
NewCheck == CHOOSE c \in FreeChecks : \A r \in FreeChecks : c <= r

\* ServiceStatus.checkServices (part_001:23-26) up to the await, with
\* avatarService.checkServices up to its await (avatarService.ts:166-170):
\* on mount, every 30 s, or by the button of line 69.
SSCheckServices ==
  /\ ~MidDispatch
  /\ FreeChecks # {}
  /\ ssIsChecking' = TRUE
  /\ checks' = [checks EXCEPT ![NewCheck] = [NoCheck EXCEPT !.state = "waiting"]]
  /\ lastCall' = NoCall
  /\ UNCHANGED <<ssServices, ssLastCheck>>
  /\ UNCHANGED <<hookVars, sysVars, inboxVars, wire, recVars, runVars, pageVars>>

\* The rest of ServiceStatus.checkServices, part_001:27-33, for a call
\* that returned res.
ssContinue(res) ==
  /\ ssServices' = IF res.threw THEN ssServices ELSE res.status
  /\ ssLastCheck' = IF res.threw THEN ssLastCheck ELSE TRUE
  /\ ssIsChecking' = FALSE

\* One fetch of a call settles.  When it is the last of the three,
\* Promise.allSettled resolves and the call returns to its caller.
ProbeSettled(c, v, outcome) ==
  /\ ~MidDispatch
  /\ checks[c].state = "waiting"
  /\ checks[c].probes[v] = "pending"
  /\ LET probes == [checks[c].probes EXCEPT ![v] = outcome]
         res == checkServicesResult(probes)
     IN IF \A w \in Services : probes[w] \in Settled
        THEN /\ checks' = [checks EXCEPT ![c] =
                   [state |-> IF res.threw THEN "rejected" ELSE "resolved",
                    probes |-> probes, threw |-> res.threw,
                    status |-> res.status]]
             /\ ssContinue(res)
        ELSE /\ checks' = [checks EXCEPT ![c].probes = probes]
             /\ UNCHANGED <<ssServices, ssIsChecking, ssLastCheck>>
  /\ lastCall' = NoCall
  /\ UNCHANGED <<hookVars, sysVars, inboxVars, wire, recVars, runVars, pageVars>>

\* The endpoint of a probe never answers.
ProbeHangs(c, v) ==
  /\ ~MidDispatch
  /\ checks[c].state = "waiting"
  /\ checks[c].probes[v] = "pending"
  /\ checks' = [checks EXCEPT ![c].probes[v] = "hung"]
  /\ lastCall' = NoCall
  /\ UNCHANGED <<ssServices, ssIsChecking, ssLastCheck>>
  /\ UNCHANGED <<hookVars, sysVars, inboxVars, wire, recVars, runVars, pageVars>>

(***************************************************************************)
(* The state after AvatarSystem mounted: the mount effect of the hook      *)
(* (useWebSocket.ts:123-129) called connect(), the status effect ran with  *)
(* the status of the first render, "Disconnected", and armed the 5 s       *)
(* timer, and the status "Connecting" was committed.                       *)
(***************************************************************************)
Init ==
  /\ connectionStatus = "Connecting"
  /\ reconnectAttempts = 0
  /\ reconnectAttemptsRef = 0
  /\ wsRef = 1
  /\ reconnectTimeoutRef = 0
  /\ lastMessage = ""
  /\ sockets = [s \in SockIds |-> IF s = 1 THEN "CONNECTING" ELSE "CLOSED"]
  /\ timers = << >>
  /\ isConnected = FALSE
  /\ renderedStatus = "Connecting"
  /\ sysTimer = TRUE
  /\ sysBlockers = {}
  /\ lastCall = Called("connect", "mount")
  /\ wire = {}
  /\ isRecording = FALSE
  /\ isProcessing = FALSE
  /\ mediaRecorderRef = 0
  /\ pendingMedia = 0
  /\ recorders = [k \in TurnIds |-> "none"]
  /\ tracks = [k \in TurnIds |-> FALSE]
  /\ runs = [k \in TurnIds |-> NoRun]
  /\ messages = << >>
  /\ isSpeaking = FALSE
  /\ currentAudioUrl = 0
  /\ playing = {}
  /\ pgIsConnected = FALSE
  /\ pgIsProcessing = FALSE
  /\ pgAudioUrl = 0
  /\ pgIsSpeaking = FALSE
  /\ pgAvatarResponse = << >>
  /\ pgMessages = << [sender |-> "avatar", text |-> "greeting"] >>
  /\ pgPlaying = 0
  /\ vrIsRecording = FALSE
  /\ vrAudioBlob = 0
  /\ vrMediaRecorderRef = 0
  /\ vrPendingMedia = 0
  /\ vrTimers = << >>
  /\ anims = [k \in TurnIds |-> 0]
  /\ isAnimating = FALSE
  /\ videoUrl = 0
  /\ stuckAnims = [k \in TurnIds |-> 0]
  /\ checks = [c \in CheckIds |-> NoCheck]
  /\ ssServices = [v \in Services |-> FALSE]
  /\ ssIsChecking = FALSE
  /\ ssLastCheck = FALSE
  /\ arrived = << >>
  /\ dispatched = << >>

Next ==
  \/ \E s \in SockIds : SockOpen(s)
  \/ \E s \in SockIds : SockError(s)
  \/ \E s \in SockIds : SockClose(s)
  \/ ReconnectTimer
  \/ SysTimer
  \/ \E allUp \in BOOLEAN : CheckServicesStatus(allUp)
  \/ HandleConnect

Spec == Init /\ [][Next]_vars

\* Text turns over the connection as it opens, fails and is retried by the
\* hook's timer and by the 5 s timer of AvatarSystem.
NextChat ==
  \/ \E s \in SockIds : SockOpen(s)
  \/ \E s \in SockIds : SockError(s)
  \/ \E s \in SockIds : SockClose(s)
  \/ ReconnectTimer
  \/ SysTimer
  \/ \E text \in Texts : HandleSendText(text)

SpecChat == Init /\ [][NextChat]_vars

\* Voice turns: the recordings and their pipeline runs, while the
\* connection opens, is lost and is retried by the hook's timer.
NextPipeline ==
  \/ \E s \in SockIds : SockOpen(s)
  \/ \E s \in SockIds : SockError(s)
  \/ \E s \in SockIds : SockClose(s)
  \/ ReconnectTimer
  \/ StartRecording
  \/ MediaGranted
  \/ MediaDenied
  \/ StopRecording
  \/ \E k \in TurnIds : RecorderStop(k)
  \/ \E k \in TurnIds, ok \in BOOLEAN, text \in Heard : RecognizeSettled(k, ok, text)
  \/ \E k \in TurnIds, ok \in BOOLEAN, text \in Replies : GenerateSettled(k, ok, text)
  \/ \E k \in TurnIds, ok \in BOOLEAN : SynthesizeSettled(k, ok)
  \/ \E k \in TurnIds, ok \in BOOLEAN : AudioSettled(k, ok)

SpecPipeline == Init /\ [][NextPipeline]_vars

\* Voice turns of AvatarSystem with what follows a run and what may keep
\* it from ending: the audio it plays, and requests that are never
\* answered.  The connection opens and may be lost.
NextRuns ==
  \/ \E s \in SockIds : SockOpen(s)
  \/ \E s \in SockIds : SockError(s)
  \/ \E s \in SockIds : SockClose(s)
  \/ StartRecording
  \/ MediaGranted
  \/ MediaDenied
  \/ StopRecording
  \/ \E k \in TurnIds : RecorderStop(k)
  \/ \E k \in TurnIds, ok \in BOOLEAN, text \in Heard : RecognizeSettled(k, ok, text)
  \/ \E k \in TurnIds, ok \in BOOLEAN, text \in Replies : GenerateSettled(k, ok, text)
  \/ \E k \in TurnIds, ok \in BOOLEAN : SynthesizeSettled(k, ok)
  \/ \E k \in TurnIds, ok \in BOOLEAN : AudioSettled(k, ok)
  \/ \E k \in TurnIds : RequestHangs(k)
  \/ \E k \in TurnIds, played \in BOOLEAN : AudioFinished(k, played)

SpecRuns == Init /\ [][NextRuns]_vars

\* Voice turns of AvatarPage: its VoiceRecorder, the pipeline runs it
\* starts and the animations of AnimatedAvatar.
NextPage ==
  \/ PageConnect
  \/ VRStartRecording
  \/ VRMediaGranted
  \/ VRMediaDenied
  \/ VRStopRecording
  \/ \E r \in TurnIds : VRRecorderStop(r)
  \/ VRAutoSend
  \/ VRSendClick
  \/ VRCancel
  \/ ResponseAudioEnded
  \/ \E a \in TurnIds, ok \in BOOLEAN : AnimationSettled(a, ok)
  \/ \E a \in TurnIds : VideoNeverReady(a)
  \/ \E k \in TurnIds, ok \in BOOLEAN, text \in Heard : RecognizeSettled(k, ok, text)
  \/ \E k \in TurnIds, ok \in BOOLEAN, text \in Replies : GenerateSettled(k, ok, text)
  \/ \E k \in TurnIds, ok \in BOOLEAN : SynthesizeSettled(k, ok)
  \/ \E k \in TurnIds, ok \in BOOLEAN : AudioSettled(k, ok)
  \/ \E k \in TurnIds : RequestHangs(k)

SpecPage == Init /\ [][NextPage]_vars

\* The health checks of ServiceStatus.
NextServices ==
  \/ SSCheckServices
  \/ \E c \in CheckIds, v \in Services, outcome \in Settled :
       ProbeSettled(c, v, outcome)
  \/ \E c \in CheckIds, v \in Services : ProbeHangs(c, v)

SpecServices == Init /\ [][NextServices]_vars

\* The recordings of AvatarSystem: the microphone is requested, granted
\* or denied, the recorder starts or fails to start, and is stopped, while
\* the connection opens, is lost and is retried by the hook's timer.
NextRecording ==
  \/ \E s \in SockIds : SockOpen(s)
  \/ \E s \in SockIds : SockError(s)
  \/ \E s \in SockIds : SockClose(s)
  \/ ReconnectTimer
  \/ StartRecording
  \/ MediaGranted
  \/ MediaDenied
  \/ RecorderStartFails
  \/ StopRecording
  \/ \E k \in TurnIds : RecorderStop(k)

SpecRecording == Init /\ [][NextRecording]_vars

\* The frames the server sends over the connection as it opens, fails and
\* is retried by the hook's timer.
NextInbox ==
  \/ \E s \in SockIds : SockOpen(s)
  \/ \E s \in SockIds : SockError(s)
  \/ \E s \in SockIds : SockClose(s)
  \/ ReconnectTimer
  \/ \E s \in SockIds, m \in Inbound : SockMessage(s, m)

SpecInbox == Init /\ [][NextInbox]_vars

\* The message history of AvatarSystem and what changes it, once the
\* connection is open: text turns, voice turns whose recognition hears
\* "hello", and the assistant responses and errors the server sends.
NextHistory ==
  \/ \E s \in SockIds : SockOpen(s)
  \/ \E s \in SockIds, m \in {"{type:assistant_response,text:a1}",
                              "{type:error}"} : SockMessage(s, m)
  \/ \E text \in Texts : HandleSendText(text)
  \/ StartRecording
  \/ MediaGranted
  \/ StopRecording
  \/ \E k \in TurnIds : RecorderStop(k)
  \/ \E k \in TurnIds, ok \in BOOLEAN : RecognizeSettled(k, ok, "hello")
  \/ \E k \in TurnIds, ok \in BOOLEAN : GenerateSettled(k, ok, "hi")
  \/ \E k \in TurnIds, ok \in BOOLEAN : SynthesizeSettled(k, ok)
  \/ \E k \in TurnIds, ok \in BOOLEAN : AudioSettled(k, ok)

SpecHistory == Init /\ [][NextHistory]_vars

(***************************************************************************)
(* Properties.                                                             *)
(***************************************************************************)

\* C1: at most one pipeline run is in flight at any instant, whatever the
\* interleaving of start-recording and stop-recording events.
C1_SingleFlight == Cardinality(InFlight) <= 1

\* C2: the reconnect attempt counter stays within 0..maxReconnectAttempts
\* (the counter of the retry decision and the reported one).
C2_CounterInRange ==
  /\ reconnectAttemptsRef \in 0..maxReconnectAttempts
  /\ reconnectAttempts \in 0..maxReconnectAttempts

\* C2 witness: a close event found the counter at its maximum and did not
\* increment it.
C2_Witness ==
  /\ reconnectAttemptsRef = maxReconnectAttempts
  /\ connectionStatus = "Error"
  /\ ~MidDispatch
  /\ lastCall = NoCall

\* C3: the status is Error only while the reconnect counter is exhausted:
\* it is never Error while the counter is below maxReconnectAttempts.
C3_FailedOnlyWhenExhausted ==
  connectionStatus = "Error" => reconnectAttemptsRef = maxReconnectAttempts

\* The connection has failed for good: a close event found the counter
\* exhausted.
Exhausted ==
  /\ connectionStatus = "Error"
  /\ reconnectAttemptsRef = maxReconnectAttempts
  /\ ~MidDispatch

\* C4: once the retries are exhausted and the status is Error, a new
\* transport is opened only by an explicit connect request of the user,
\* never by a timer or a periodic check.
C4_NoAutomaticAttemptAfterFailed ==
  [][(Exhausted /\ \E s \in SockIds :
         sockets[s] # "CONNECTING" /\ sockets'[s] = "CONNECTING")
       => lastCall'.by = "user"]_vars

\* C5: connect() called while the status is Connecting or Connected is a
\* no-op: no new transport, status, counter and current transport unchanged.
C5_ConnectIdempotent ==
  [][(lastCall'.fn = "connect" /\ connectionStatus \in {"Connecting", "Connected"})
       => UNCHANGED <<connectionStatus, reconnectAttemptsRef, reconnectAttempts,
                      wsRef, sockets>>]_vars

\* C6: at most one transport created by the hook is CONNECTING or OPEN.
C6_OneLiveTransport == Cardinality(Live) <= 1

\* C7: when disconnect() has returned, no retry timer of the hook is pending,
\* the transport it held is closed (no longer CONNECTING or OPEN) and
\* released, the status is Disconnected and the counter is 0.
C7_DisconnectPostcondition ==
  [][lastCall'.fn = "disconnect"
       => /\ timers' = << >>
          /\ wsRef' = 0
          /\ wsRef # 0 => sockets'[wsRef] \notin {"CONNECTING", "OPEN"}
          /\ connectionStatus' = "Disconnected"
          /\ reconnectAttemptsRef' = 0
          /\ reconnectAttempts' = 0]_vars

\* C8: sendMessage succeeds only where the status is Connected: wherever
\* the status is Disconnected, Connecting or Error (between tasks), the
\* value it returns is false.
C8_SendOnlyWhenConnected ==
  (~MidDispatch /\ connectionStatus # "Connected") => ~sendReturns(sockets)

\* The user messages that were typed and are in the history.
Typed == {t \in Texts : \E i \in 1..Len(messages) :
                          messages[i] = [type |-> "user", text |-> t]}

\* C9: a sendMessage call that finds the transport not open returns false,
\* transmits nothing and leaves the transport reference and the last message
\* as they are (and, when the call is the whole task, as in handleSendText,
\* every variable of the hook); the message is not queued: frames reach the
\* wire only in a successful call, and a typed message that was not
\* transmitted by its call is never transmitted later.
C9_FailedSendIsInert ==
  [][/\ (lastCall'.fn = "sendMessage" /\ ~lastCall'.ret)
          => /\ readyState(sockets', wsRef') # "OPEN"
             /\ UNCHANGED <<wire, wsRef, lastMessage>>
     /\ (lastCall'.fn = "sendMessage" /\ ~lastCall'.ret /\ lastCall'.by = "user")
          => UNCHANGED hookVars
     /\ wire' # wire
          => /\ lastCall'.fn = "sendMessage" /\ lastCall'.ret
             /\ wire' = wire \cup {lastCall'.msg}
     /\ \A t \in Typed : UserMessage(t) \notin wire => UserMessage(t) \notin wire'
    ]_vars

\* C9 witness: handleSendText called sendMessage, which returned false, and
\* the message is in the history but not on the wire.
C9_Witness ==
  /\ lastCall.fn = "sendMessage" /\ lastCall.by = "user" /\ ~lastCall.ret
  /\ lastCall.msg.text \in Typed
  /\ lastCall.msg \notin wire

\* C10: a run started while the connection status is not Connected
\* contacts no inference service.
C10_NoServiceWithoutConnection ==
  \A k \in TurnIds :
    (runs[k].stage # "none" /\ ~runs[k].connected) => runs[k].calls = {}

\* The position of a request in the stage sequence of a run:
\* avatarService.ts:133 (recognition), 141 (generation), 145 with 82
\* (POST /synthesize) and 102 (GET /audio/{id}).
StageNo(c) ==
  CASE c = "recognize" -> 1
    [] c = "generate" -> 2
    [] c = "synthesize" -> 3
    [] c = "audio" -> 4

\* C11: a run in which the request of a stage failed has ended with an
\* error and has issued no request of a later stage; a failed
\* POST /synthesize is not followed by GET /audio/{id}.
C11_NoCallAfterFailure ==
  \A k \in TurnIds :
    runs[k].failedAt # "none"
      => /\ runs[k].stage = "failed"
         /\ \A c \in runs[k].calls : StageNo(c) <= StageNo(runs[k].failedAt)

\* C11 witness: POST /synthesize failed in a run that got that far.
C11_Witness ==
  \E k \in TurnIds :
    /\ runs[k].failedAt = "synthesize"
    /\ runs[k].calls = {"recognize", "generate", "synthesize"}

\* C12: a run whose recognition returned an empty or whitespace-only text
\* has failed with the recognition request as its only call (no
\* generation, no synthesis), and the history holds no user message with
\* such a text, voice turns being the only source of messages here.
C12_BlankRecognitionEndsRun ==
  /\ \A k \in TurnIds :
       (runs[k].stage \notin {"none", "recognize"}
          /\ trim(runs[k].recognizedText) = "")
         => /\ runs[k].stage = "failed"
            /\ runs[k].calls = {"recognize"}
  /\ \A i \in 1..Len(messages) :
       messages[i].type = "user" => trim(messages[i].text) # ""
  /\ Len(messages) = 2 * Cardinality({k \in TurnIds : runs[k].stage = "done"})

\* C12 witness: recognition answered with a whitespace-only text.
C12_Witness ==
  \E k \in TurnIds :
    /\ runs[k].recognizedText = " "
    /\ runs[k].stage = "failed"

\* C13: the step in which a run completes its last stage appends exactly
\* two messages to the history of the component that awaited it, adjacent
\* and in this order: a user message with the recognized text, then an
\* assistant message with the generated text.
C13_CompletionAppendsPair ==
  [][\A k \in TurnIds :
       (runs[k].stage = "audio" /\ runs'[k].stage = "done")
         => IF runs[k].by = "VoiceRecorder"
            THEN pgMessages' = pgMessages \o
                   << [sender |-> "user", text |-> runs[k].recognizedText],
                      [sender |-> "avatar", text |-> runs[k].aiResponse] >>
            ELSE messages' = messages \o
                   << [type |-> "user", text |-> runs[k].recognizedText],
                      [type |-> "assistant", text |-> runs[k].aiResponse] >>
    ]_vars

\* C14: the history changes only in a step in which a turn reaches Done: a
\* voice run completes its last stage, or the answer to a text turn
\* arrives on the connection.  Sending a text appends nothing by itself.
C14_AppendOnlyWhenDone ==
  [][messages' # messages
       => \/ \E k \in TurnIds : runs[k].stage = "audio" /\ runs'[k].stage = "done"
          \/ lastMessage' # lastMessage]_vars

\* A run is superseded once a run that started after it exists.
Superseded(k) == \E j \in TurnIds : runs[j].seq > runs[k].seq

\* C15: the completion of a superseded run is discarded: the step in which
\* a run ends while a newer run has been started appends no message, plays
\* no audio and leaves the current audio reference as it is.
C15_SupersededRunDiscarded ==
  [][\A k \in TurnIds :
       (runs[k].stage \in Waiting /\ runs'[k].stage \in {"done", "failed"}
          /\ Superseded(k))
         => UNCHANGED <<messages, playing, currentAudioUrl>>]_vars

\* C16: a checkServices call all of whose probes have settled has resolved
\* without throwing, whatever the outcomes were, and the flag it reports
\* for a service is true exactly when that service's own probe got a 2xx
\* response.
C16_ProbesIsolated ==
  \A c \in CheckIds :
    (checks[c].state # "idle"
       /\ \A v \in Services : checks[c].probes[v] \in Settled)
      => /\ checks[c].state = "resolved"
         /\ ~checks[c].threw
         /\ \A v \in Services :
              checks[c].status[v] <=> (checks[c].probes[v] = "ok")

\* C16 witness: a call returned with one probe rejected, one answered
\* non-2xx and one answered 2xx.
C16_Witness ==
  \E c \in CheckIds :
    /\ checks[c].state = "resolved"
    /\ checks[c].probes["backend"] = "failed"
    /\ checks[c].probes["tts"] = "bad"
    /\ checks[c].probes["sadtalker"] = "ok"
    /\ ssServices = checks[c].status
    /\ ~ssIsChecking

\* C17: checkServices returns also when an endpoint never answers: no call
\* is left waiting with every probe either settled or never to be answered.
C17_HangingProbeDoesNotBlock ==
  \A c \in CheckIds :
    checks[c].state = "waiting"
      => \E v \in Services : checks[c].probes[v] = "pending"

\* C18: every started run can still end: no run waits for a request that
\* is never answered, a stage that gets no answer being ended by a timeout.
C18_EveryRunCanEnd ==
  \A k \in TurnIds : runs[k].stage \in Waiting => ~runs[k].hung

\* C19: every change of the connection status, from one task to the next,
\* follows one of the edges Disconnected->Connecting, Connecting->Connected,
\* Connecting->Disconnected, Connecting->Error, Connected->Disconnected,
\* Disconnected->Error, or Error->Connecting by a connect request of the
\* user.
C19_StatusFollowsEdges ==
  [][renderedStatus' # renderedStatus
       => \/ <<renderedStatus, renderedStatus'>> \in
               { <<"Disconnected", "Connecting">>,
                 <<"Connecting", "Connected">>,
                 <<"Connecting", "Disconnected">>,
                 <<"Connecting", "Error">>,
                 <<"Connected", "Disconnected">>,
                 <<"Disconnected", "Error">> }
          \/ /\ renderedStatus = "Error" /\ renderedStatus' = "Connecting"
             /\ lastCall'.fn = "connect" /\ lastCall'.by = "user"]_vars

\* C20: a connect request of the user made while the status is Error
\* resets the attempt counter to 0.
C20_ConnectInFailedResetsCounter ==
  [][(lastCall'.fn = "connect" /\ lastCall'.by = "user"
        /\ connectionStatus = "Error")
       => reconnectAttemptsRef' = 0 /\ reconnectAttempts' = 0]_vars

\* C21: the microphone is released on every exit path of a recording of
\* AvatarSystem: while no recording is going on (it was stopped, or
\* starting it failed), no acquired stream has live tracks.
C21_DeviceReleased ==
  ~isRecording => \A k \in TurnIds : ~tracks[k]

\* The close event of socket s is delivered in this step, and it does not
\* complete a close() of an open transport.
ClosedUnasked(s) ==
  sockets[s] \in {"ERRORED", "OPEN"} /\ sockets'[s] = "CLOSED"

\* What a close event does while the counter is below the maximum: one
\* retry timer is armed and the counter (the one the decision reads and the
\* reported one) goes up by one.
OneRetryScheduled ==
  /\ reconnectTimeoutRef' \notin Range(timers)
  /\ timers' = Append(timers, reconnectTimeoutRef')
  /\ reconnectAttemptsRef' = reconnectAttemptsRef + 1
  /\ reconnectAttempts' = reconnectAttemptsRef + 1

\* A new connection attempt starts in this step: one more transport, which
\* is connecting and is the current one, and the status is Connecting.
AttemptStarted ==
  /\ connectionStatus' = "Connecting"
  /\ wsRef' # 0 /\ sockets[wsRef'] = "CLOSED"
  /\ sockets' = [sockets EXCEPT ![wsRef'] = "CONNECTING"]

\* C22: a close event that disconnect() did not cause, the counter being
\* below maxReconnectAttempts, arms exactly one retry timer and adds one to
\* the counter; when the retry timer fires, a new connection attempt is
\* started and the status is Connecting.
C22_RetryScheduledAndRun ==
  [][/\ \A s \in SockIds :
          (ClosedUnasked(s) /\ reconnectAttemptsRef < maxReconnectAttempts)
            => OneRetryScheduled
     /\ lastCall'.by = "retryTimer" => AttemptStarted]_vars

\* C23: when an open event makes the status Connected, the attempt counter
\* is 0, both the one the retry decision reads and the reported one.
C23_OpenResetsCounter ==
  [][(\E s \in SockIds : sockets[s] = "CONNECTING" /\ sockets'[s] = "OPEN")
       => /\ connectionStatus' = "Connected"
          /\ reconnectAttemptsRef' = 0
          /\ reconnectAttempts' = 0]_vars

\* C23 witness: a transport opened after failed attempts had raised the
\* counter, which is 0 again.
C23_Witness ==
  /\ lastCall.fn = "sendMessage" /\ lastCall.by = "onOpen"
  /\ connectionStatus = "Connected"
  /\ reconnectAttemptsRef = 0 /\ reconnectAttempts = 0
  /\ \E s \in SockIds : s > 1 /\ sockets[s] = "OPEN"
  /\ sockets[1] = "CLOSED"

\* C24: the message history is append-only: in every step the history
\* before the step is a prefix of the history after it.
C24_HistoryAppendOnly ==
  [][/\ Len(messages) <= Len(messages')
     /\ SubSeq(messages', 1, Len(messages)) = messages]_vars

\* C24 witness: the history holds a typed message, an assistant response
\* the server sent and the pair of a completed voice turn, the last of
\* them appended to the others.
C24_Witness ==
  /\ Len(messages) >= 4
  /\ \E i \in 1..Len(messages) : messages[i] = [type |-> "user", text |-> "t1"]
  /\ \E i \in 1..Len(messages) :
       messages[i] = [type |-> "assistant", text |-> "a1"]
  /\ \E i \in 1..(Len(messages) - 1) :
       /\ messages[i] = [type |-> "user", text |-> "hello"]
       /\ messages[i + 1] = [type |-> "assistant", text |-> "hi"]

\* C25: handleSendText heeds the value sendMessage returns: after a call
\* in which sendMessage returned false, isProcessing is not true.
C25_FailedSendNotAwaited ==
  (lastCall.fn = "sendMessage" /\ lastCall.by = "user" /\ ~lastCall.ret)
    => ~isProcessing

\* C29: every frame received on the connection is handed to
\* handleWebSocketMessage exactly once and in the order of arrival: after
\* each message event the frames dispatched are the frames that arrived.
C29_EveryFrameDispatchedOnce == dispatched = arrived

\* The connection as disconnect() leaves it: no current transport, status
\* Disconnected, no retry timer pending, the counter at 0.  connect() is
\* the only writer that gives wsRef a transport, so wsRef is null only
\* from a disconnect() to the next connect().
Quiescent ==
  /\ wsRef = 0
  /\ connectionStatus = "Disconnected"
  /\ timers = << >>
  /\ reconnectAttemptsRef = 0 /\ reconnectAttempts = 0

\* C26: from disconnect() to the next connect() of the user the connection
\* stays quiescent: no step other than that connect() starts a connection
\* attempt, arms a retry timer, changes the status or the counter, the
\* delivery of the close event of the transport disconnect() closed
\* included.
C26_QuiescentAfterDisconnect ==
  [][(Quiescent /\ ~(lastCall'.fn = "connect" /\ lastCall'.by = "user"))
       => /\ Quiescent'
          /\ \A s \in SockIds : sockets'[s] = "CONNECTING"
                                  => sockets[s] = "CONNECTING"]_vars

\* C27: the status agrees with the current transport: after every task the
\* status is Connected exactly when the transport wsRef holds is open; and
\* the open, error or close event of a transport that is not the current
\* one changes neither the status nor the counter.
C27_StatusAgreesWithTransport ==
  [][/\ ~MidDispatch'
          => (connectionStatus' = "Connected"
                <=> readyState(sockets', wsRef') = "OPEN")
     /\ \A s \in SockIds :
          (s # wsRef /\ sockets'[s] # sockets[s]
             /\ sockets'[s] \in {"OPEN", "ERRORED", "CLOSED"})
            => UNCHANGED <<connectionStatus, reconnectAttemptsRef,
                           reconnectAttempts>>]_vars

\* C28: at most one reconnect timer is pending at any time, the retry
\* timers of the hook and the 5 s timer of AvatarSystem counted together.
C28_OneReconnectTimer ==
  Len(timers) + (IF sysTimer THEN 1 ELSE 0) <= 1

\* C30: every createAnimation call can still end with the video or with an
\* error, isAnimating returning to false: none waits for a video that the
\* endpoint never reports as ready, the wait for the video being limited.
C30_AnimationCanEnd ==
  \A a \in TurnIds : stuckAnims[a] = 0

====
